---- MODULE Spec2Model ----
(***************************************************************************)
(* Model of the lead scraper's search pipeline (src/app.py): request       *)
(* validation, the bounded pagination loop around fetch_results, the       *)
(* recursive email extraction, parse_result and generate_csv.              *)
(*                                                                         *)
(* Strings that the code inspects character by character (JSON string      *)
(* leaves, emails, CSV lines) are sequences of one-character strings.      *)
(* A JSON value is a node [t, s, c]: t is its type, s the text of a        *)
(* string, c the ordered entries [k, v] of a mapping (k the key) or of a   *)
(* list (k empty).                                                         *)
(***************************************************************************)
EXTENDS Integers, Sequences, FiniteSets, TLC

VARIABLES
    config,                 \* app.config: GOOGLE_API_KEY, SEARCH_ENGINE_ID, CLIENT_KEY
    data,                   \* request.get_json()
    pc,                     \* position inside search()
    query,                  \* the constructed query
    i,                      \* loop variable of range(0, 1000, 10)
    results,                \* the page returned by the last fetch_results call
    idx,                    \* position of the inner loop in results
    all_data,               \* parsed records
    total_items_processed,
    items_without_emails,
    response,               \* what search() returned
    fetchCalls,             \* history: start offset of every fetch_results call
    netCalls,               \* history: number of requests.get calls
    fetched,                \* history: the list returned by every fetch_results call
    lastCause,              \* history: why the last fetch_results call returned what it did
    xin,                    \* extract_emails alone: its argument
    xout,                   \* extract_emails alone: its result
    xpc                     \* extract_emails alone: "ready" or "done"

vars == <<config, data, pc, query, i, results, idx, all_data,
          total_items_processed, items_without_emails, response,
          fetchCalls, netCalls, fetched, lastCause, xin, xout, xpc>>

pipeVars == <<config, data, pc, query, i, results, idx, all_data,
              total_items_processed, items_without_emails, response,
              fetchCalls, netCalls, fetched, lastCause>>

xVars == <<xin, xout, xpc>>

(***************************************************************************)
(* Bounds of the model.                                                    *)
(***************************************************************************)
\* Pages of arbitrary items are enumerated while the run holds at most this
\* many items; beyond it only the uniform run of filler pages continues.
MaxVariedItems == 3
\* Largest page the search API is made to return while items vary.
MaxPageLen == 2
\* Nesting depth of the values extract_emails is applied to on its own.
MaxDepth == 2
\* Length of the strings over XAlphabet extract_emails is applied to.
MaxStrLen == 5

(***************************************************************************)
(* Program constants.                                                      *)
(***************************************************************************)
\* range(0, 1000, 10)
ResultCeiling == 1000
PageStep == 10

----------------------------------------------------------------------------
(***************************************************************************)
(* Generic helpers.                                                        *)
(***************************************************************************)
Range(f) == {f[j] : j \in DOMAIN f}

NoDup(seq) == \A a, b \in DOMAIN seq : a # b => seq[a] # seq[b]

\* All orderings of a finite set, as sequences without repetition.
ListsOf(S) ==
    {f \in [1..Cardinality(S) -> S] : \A a, b \in 1..Cardinality(S) : a # b => f[a] # f[b]}

RECURSIVE Flatten(_)
Flatten(seqs) ==
    IF seqs = <<>> THEN <<>> ELSE Head(seqs) \o Flatten(Tail(seqs))

----------------------------------------------------------------------------
(***************************************************************************)
(* EMAIL_REGEX = [a-zA-Z0-9_.+-]+@[a-zA-Z0-9-]+\.[a-zA-Z0-9-.]+            *)
(***************************************************************************)
LowerCase ==
    <<"a","b","c","d","e","f","g","h","i","j","k","l","m","n","o","p","q","r",
      "s","t","u","v","w","x","y","z">>
UpperCase ==
    <<"A","B","C","D","E","F","G","H","I","J","K","L","M","N","O","P","Q","R",
      "S","T","U","V","W","X","Y","Z">>
Digits == {"0","1","2","3","4","5","6","7","8","9"}
Alnum == Range(LowerCase) \cup Range(UpperCase) \cup Digits

EMAIL_REGEX ==
    [local  |-> Alnum \cup {"_", ".", "+", "-"},
     host   |-> Alnum \cup {"-"},
     domain |-> Alnum \cup {"-", "."}]

\* End (exclusive) of the longest run of characters of class cls starting at p:
\* what a greedy cls+ or cls* consumes.
RunEnd(s, p, cls) ==
    CHOOSE q \in p..(Len(s) + 1) :
        /\ \A j \in p..(q - 1) : s[j] \in cls
        /\ (q = Len(s) + 1 \/ s[q] \notin cls)

\* re.match of EMAIL_REGEX at position p: the end (exclusive) of the match, 0
\* when there is none. "@" is outside the local class and "." outside the host
\* class, so backtracking into a shorter run can never succeed.
MatchAt(s, p) ==
    LET a == RunEnd(s, p, EMAIL_REGEX.local) IN
    IF a = p \/ a > Len(s) \/ s[a] # "@" THEN 0
    ELSE LET b == RunEnd(s, a + 1, EMAIL_REGEX.host) IN
         IF b = a + 1 \/ b > Len(s) \/ s[b] # "." THEN 0
         ELSE LET c == RunEnd(s, b + 1, EMAIL_REGEX.domain) IN
              IF c = b + 1 THEN 0 ELSE c

\* re.findall(EMAIL_REGEX, s): the non-overlapping matches, left to right.
RECURSIVE findallFrom(_, _)
findallFrom(s, p) ==
    IF p > Len(s) THEN <<>>
    ELSE LET e == MatchAt(s, p) IN
         IF e = 0 THEN findallFrom(s, p + 1)
         ELSE <<SubSeq(s, p, e - 1)>> \o findallFrom(s, e)

findall(s) == findallFrom(s, 1)

----------------------------------------------------------------------------
(***************************************************************************)
(* JSON values.                                                            *)
(***************************************************************************)
JStr(s)      == [t |-> "str",  s |-> s,    c |-> <<>>]
\* a number or a boolean holds its str() in s
JNum(digits) == [t |-> "num",  s |-> digits, c |-> <<>>]
JBool(text)  == [t |-> "bool", s |-> text, c |-> <<>>]
JNull        == [t |-> "null", s |-> <<>>, c |-> <<>>]
JList(elems) == [t |-> "list", s |-> <<>>,
                 c |-> [j \in DOMAIN elems |-> [k |-> <<>>, v |-> elems[j]]]]
JDict(ents)  == [t |-> "dict", s |-> <<>>, c |-> ents]
Ent(key, val) == [k |-> key, v |-> val]

\* dict.get(key, default) on a node that is a dict
HasKey(d, key) == \E j \in DOMAIN d.c : d.c[j].k = key
Get(d, key, default) ==
    IF HasKey(d, key) THEN d.c[CHOOSE j \in DOMAIN d.c : d.c[j].k = key].v
    ELSE default

(***************************************************************************)
(* extract_emails: scan() walks mapping values and list elements and adds  *)
(* the matches of every string to the set `emails`; list(emails) then      *)
(* yields the set in its iteration order, which is the hash order of the   *)
(* strings (randomised per process), not the order of insertion.           *)
(***************************************************************************)
RECURSIVE scan(_, _), scanEntries(_, _, _)
scan(d, emails) ==
    IF d.t \in {"dict", "list"} THEN scanEntries(d.c, 1, emails)
    ELSE IF d.t = "str" THEN emails \cup Range(findall(d.s))
    ELSE emails

\* Faulty variant: the keys of a mapping are searched as well.
scanEntries_keys(ents, j, emails) ==
    IF j > Len(ents) THEN emails
    ELSE scanEntries(ents, j + 1,
                     scan(ents[j].v, emails \cup Range(findall(ents[j].k))))

scanEntries(ents, j, emails) ==
    IF j > Len(ents) THEN emails
    ELSE scanEntries(ents, j + 1, scan(ents[j].v, emails))

\* The lists extract_emails(obj) can return.
extract_emails(obj) == ListsOf(scan(obj, {}))

----------------------------------------------------------------------------
(***************************************************************************)
(* parse_result                                                            *)
(***************************************************************************)
K_title      == <<"t","i","t","l","e">>
K_link       == <<"l","i","n","k">>
K_pagemap    == <<"p","a","g","e","m","a","p">>
K_metatags   == <<"m","e","t","a","t","a","g","s">>
K_first_name == <<"p","r","o","f","i","l","e",":","f","i","r","s","t","_","n","a","m","e">>
K_last_name  == <<"p","r","o","f","i","l","e",":","l","a","s","t","_","n","a","m","e">>
T_linkedin   == <<"l","i","n","k","e","d","i","n",".","c","o","m">>
T_other      == <<"o","t","h","e","r">>
T_linkedinSource == <<"l","i","n","k","e","d","i","n">>

Lower(ch) ==
    IF \E j \in DOMAIN UpperCase : UpperCase[j] = ch
    THEN LowerCase[CHOOSE j \in DOMAIN UpperCase : UpperCase[j] = ch]
    ELSE ch

\* re.search(r'linkedin\.com', url, re.IGNORECASE)
SearchLinkedin(url) ==
    \E p \in 1..(Len(url) - Len(T_linkedin) + 1) :
        \A j \in 1..Len(T_linkedin) : Lower(url[p + j - 1]) = T_linkedin[j]

EmptyDict == JDict(<<>>)
EmptyList == JList(<<>>)
EmptyStr  == JStr(<<>>)

Pagemap(item)  == Get(item, K_pagemap, EmptyDict)
Metatags(item) == Get(Pagemap(item), K_metatags, EmptyList)

\* meta.update(tag) raises unless tag is a mapping (or an empty iterable).
TagRaises(tag) == ~(tag.t = "dict" \/ (tag.t \in {"list", "str"} /\ tag.c = <<>> /\ tag.s = <<>>))

\* Whether parse_result(item) raises: item.get on a non-mapping, re.search on
\* a link that is no string, .get on a pagemap that is no mapping, iteration
\* over metatags that are not iterable, meta.update of a tag that is no mapping.
parse_raises(item) ==
    \/ item.t # "dict"
    \/ Get(item, K_link, EmptyStr).t # "str"
    \/ Pagemap(item).t # "dict"
    \/ LET m == Metatags(item) IN
       \/ m.t \in {"num", "bool", "null"}
       \/ m.t = "str" /\ m.s # <<>>
       \/ m.t = "dict" /\ \E j \in DOMAIN m.c : m.c[j].k # <<>>
       \/ m.t = "list" /\ \E j \in DOMAIN m.c : TagRaises(m.c[j].v)

\* meta = {}; for tag in metatags: meta.update(tag); meta.get(key, ""):
\* the value of the last tag that has the key.
MetaGet(item, key) ==
    LET m == Metatags(item)
        has == {j \in DOMAIN m.c : m.t = "list" /\ m.c[j].v.t = "dict" /\ HasKey(m.c[j].v, key)}
    IN  IF has = {} THEN EmptyStr
        ELSE Get(m.c[CHOOSE j \in has : \A l \in has : l <= j].v, key, EmptyStr)

\* The records parse_result(item) can return (one per order of the emails).
parse_result(item) ==
    LET url == Get(item, K_link, EmptyStr) IN
    {[title      |-> Get(item, K_title, EmptyStr),
      source     |-> IF SearchLinkedin(url.s) THEN T_linkedinSource ELSE T_other,
      url        |-> url,
      emails     |-> emails,
      first_name |-> MetaGet(item, K_first_name),
      last_name  |-> MetaGet(item, K_last_name)] : emails \in extract_emails(item)}

----------------------------------------------------------------------------
(***************************************************************************)
(* generate_csv: csv.writer with the default (excel) dialect.              *)
(***************************************************************************)
CsvHeader ==
    << <<"T","i","t","l","e">>, <<"S","o","u","r","c","e">>, <<"U","R","L">>,
       <<"E","m","a","i","l","s">>,
       <<"F","i","r","s","t"," ","N","a","m","e">>,
       <<"L","a","s","t"," ","N","a","m","e">> >>

\* sep.join(strs)
RECURSIVE Join(_, _)
Join(strs, sep) ==
    IF strs = <<>> THEN <<>>
    ELSE IF Len(strs) = 1 THEN strs[1]
    ELSE strs[1] \o sep \o Join(Tail(strs), sep)

\* What csv.writer writes for a value: a string as it is, None as the empty
\* string, a number or boolean as its str() (held in s).
CsvText(v) == IF v.t \in {"str", "num", "bool"} THEN v.s ELSE <<>>

RECURSIVE DoubleQuotes(_)
DoubleQuotes(s) ==
    IF s = <<>> THEN <<>>
    ELSE (IF Head(s) = "\"" THEN <<"\"", "\"">> ELSE <<Head(s)>>) \o DoubleQuotes(Tail(s))

\* QUOTE_MINIMAL: a field holding the delimiter, the quote character or a
\* character of the line terminator is quoted, its quotes doubled.
CsvField(s) ==
    IF \E j \in DOMAIN s : s[j] \in {",", "\"", "\r", "\n"}
    THEN <<"\"">> \o DoubleQuotes(s) \o <<"\"">>
    ELSE s

writerow(fields) ==
    Join([j \in DOMAIN fields |-> CsvField(fields[j])], <<",">>) \o <<"\r", "\n">>

RowOf(item) ==
    <<CsvText(item.title), item.source, CsvText(item.url),
      Join(item.emails, <<",", " ">>),
      CsvText(item.first_name), CsvText(item.last_name)>>

\* Faulty variant: records without emails get no row.
generate_csv_leads_only(recs) ==
    writerow(CsvHeader)
    \o Flatten([j \in DOMAIN recs |->
                   IF recs[j].emails = <<>> THEN <<>> ELSE writerow(RowOf(recs[j]))])

generate_csv(recs) ==
    writerow(CsvHeader) \o Flatten([j \in DOMAIN recs |-> writerow(RowOf(recs[j]))])

----------------------------------------------------------------------------
(***************************************************************************)
(* The inputs: configuration, request bodies, search-result items.         *)
(***************************************************************************)
None == "None"

\* Config reads the three settings from the environment: None when unset.
Configs ==
    [GOOGLE_API_KEY : {None, "g-key"}, SEARCH_ENGINE_ID : {None, "cx-id"},
     CLIENT_KEY : {None, "secret"}]

RequiredFields == <<"website", "city", "occupation", "email_domain", "key">>

\* A JSON object with each field absent (None), empty or set, or a body that
\* is no object.
Requests ==
    [kind : {"object"},
     website : {None, "", "example.com"}, city : {None, "", "Austin"},
     occupation : {None, "", "Engineer"}, email_domain : {None, "", "example.com"},
     key : {None, "", "secret", "wrong"}]
    \cup {[kind |-> "null"], [kind |-> "list"]}

E_a_example ==
    <<"a","@","e","x","a","m","p","l","e",".","c","o","m">>
E_a_x == <<"a","@","x",".","i","o">>
E_b_x == <<"b","@","x",".","i","o">>
E_k_x == <<"k","@","x",".","i","o">>

\* One email, three levels below the item (pagemap, metatags, tag).
ItemNested ==
    JDict(<<Ent(K_title, JStr(<<"A","l">>)),
            Ent(K_link, JStr(<<"x",".","i","o","/","a">>)),
            Ent(K_pagemap, JDict(<<Ent(K_metatags, JList(<<
                JDict(<<Ent(K_first_name, JStr(<<"A","l">>)),
                        Ent(<<"d">>, JStr(<<"c","o","n","t","a","c","t",":"," ">> \o E_a_example))>>),
                JDict(<<Ent(K_first_name, JStr(<<"A","l","a","n">>)),
                        Ent(K_last_name, JStr(<<"O","\"","N">>))>>)>>))>>))>>)

\* No email-like substring.
ItemPlain ==
    JDict(<<Ent(K_title, JStr(<<"B">>)), Ent(K_link, JStr(<<"b",".","i","o">>))>>)

\* Two emails, the first found again later, a third one in a key only; a
\* LinkedIn link.
ItemTwo ==
    JDict(<<Ent(K_title, JStr(<<"C",","," ","d">>)),
            Ent(E_k_x, JNum(<<"1">>)),
            Ent(<<"s">>, JStr(E_b_x \o <<" ">> \o E_a_x \o <<";">> \o E_b_x)),
            Ent(K_link, JStr(<<"w",".","L","i","n","k","e","d","I","n",".","C","O","M","/","c">>)),
            Ent(<<"n">>, JList(<<JNum(<<"7">>), JStr(E_a_x)>>))>>)

\* An element of "items" that is no mapping: parse_result raises on it.
ItemBad == JStr(<<"o","o","p","s">>)

Items == {ItemNested, ItemPlain, ItemTwo, ItemBad}

FillerPage == <<ItemPlain>>

Pages == UNION {[1..n -> Items] : n \in 1..MaxPageLen} \cup {FillerPage}

\* What one requests.get can come to inside fetch_results, besides a page.
EmptyCauses ==
    {"ok_empty_items",      \* 200, "items": []
     "ok_no_items_key",     \* 200, no "items"
     "ok_null_items",       \* 200, "items": null: len(items) raises
     "ok_bad_json",         \* 200, res.json() raises
     "http_403",            \* non-200
     "request_exception",   \* connection error
     "timeout"}             \* requests.Timeout after 30 s

----------------------------------------------------------------------------
(***************************************************************************)
(* fetch_results(query, start): the lists it can return, with the cause,   *)
(* the number of network calls made and whether the call raised (every     *)
(* exception is caught inside, lines 67-72, so it never does).             *)
(***************************************************************************)
CredentialsMissing(cfg) ==
    cfg.GOOGLE_API_KEY \in {None, ""} \/ cfg.SEARCH_ENGINE_ID \in {None, ""}

\* Faulty variant: a non-200 answer raises instead of returning the empty list.
fetch_results_raise_for_status(cfg, q, start, pagesAllowed) ==
    IF cfg.GOOGLE_API_KEY \in {None, ""} \/ cfg.SEARCH_ENGINE_ID \in {None, ""}
    THEN {[items |-> <<>>, cause |-> "no_credentials", net |-> 0, raised |-> FALSE]}
    ELSE {[items |-> <<>>, cause |-> c, net |-> 1, raised |-> (c = "http_403")] :
             c \in EmptyCauses}
         \cup {[items |-> p, cause |-> "ok_items", net |-> 1, raised |-> FALSE] :
                   p \in pagesAllowed}

fetch_results(cfg, q, start, pagesAllowed) ==
    IF CredentialsMissing(cfg)
    THEN {[items |-> <<>>, cause |-> "no_credentials", net |-> 0, raised |-> FALSE]}
    ELSE {[items |-> <<>>, cause |-> c, net |-> 1, raised |-> FALSE] : c \in EmptyCauses}
         \cup {[items |-> p, cause |-> "ok_items", net |-> 1, raised |-> FALSE] :
                   p \in pagesAllowed}

\* The pages the search API is made to answer with at this point of the run.
PagesAllowed ==
    {p \in Pages :
        \/ Len(Flatten(fetched)) + Len(p) <= MaxVariedItems
        \/ p = FillerPage /\ \A j \in DOMAIN fetched : fetched[j] = FillerPage}

----------------------------------------------------------------------------
(***************************************************************************)
(* search()                                                                *)
(***************************************************************************)
NoResponse == [status |-> 0]

ErrorResponse(code, msg) == [status |-> code, error |-> msg]

\* Faulty variant: only an absent field counts as missing, an empty one passes.
FirstMissing_absent_only(d) ==
    LET missing == {j \in DOMAIN RequiredFields : d[RequiredFields[j]] = None} IN
    IF missing = {} THEN 0 ELSE CHOOSE j \in missing : \A l \in missing : j <= l

\* The first required field that data.get(field) finds missing or empty;
\* 0 when there is none.
FirstMissing(d) ==
    LET missing == {j \in DOMAIN RequiredFields : d[RequiredFields[j]] \in {None, ""}} IN
    IF missing = {} THEN 0 ELSE CHOOSE j \in missing : \A l \in missing : j <= l

BuildQuery(d) ==
    <<"site:", d.website, " \"", d.city, "\" \"", d.occupation, "\" \"@", d.email_domain, "\"">>

\* lines 150-170: get_json, validation of the required fields, the client
\* key, the query
search_validate ==
    /\ pc = "start"
    /\ IF data.kind # "object"
       THEN /\ response' = ErrorResponse(500, "An unexpected error occurred")
            /\ pc' = "done"
            /\ UNCHANGED query
       ELSE IF FirstMissing(data) # 0
       THEN /\ response' = ErrorResponse(400, RequiredFields[FirstMissing(data)])
            /\ pc' = "done"
            /\ UNCHANGED query
       ELSE IF data.key # config.CLIENT_KEY
       THEN /\ response' = ErrorResponse(401, "Invalid API key")
            /\ pc' = "done"
            /\ UNCHANGED query
       ELSE /\ query' = BuildQuery(data)
            /\ pc' = "fetch"
            /\ UNCHANGED response
    /\ UNCHANGED <<config, data, i, results, idx, all_data, total_items_processed,
                   items_without_emails, fetchCalls, netCalls, fetched, lastCause>>
    /\ UNCHANGED xVars

\* Faulty variant: an empty page does not end the loop, which goes on to the next offset.
search_fetch_no_break ==
    /\ pc = "fetch"
    /\ \E r \in fetch_results(config, query, i + 1, PagesAllowed) :
        /\ fetchCalls' = Append(fetchCalls, i + 1)
        /\ netCalls' = netCalls + r.net
        /\ fetched' = Append(fetched, r.items)
        /\ lastCause' = r.cause
        /\ results' = r.items
        /\ idx' = 1
        /\ i' = IF r.items = <<>> THEN i + PageStep ELSE i
        /\ pc' = IF r.items # <<>> THEN "count"
                 ELSE IF i + PageStep < ResultCeiling THEN "fetch" ELSE "respond"
    /\ UNCHANGED <<config, data, query, all_data, total_items_processed,
                   items_without_emails, response>>
    /\ UNCHANGED xVars

\* Faulty variant: the offset passed is i, not i + 1.
search_fetch_zero_based ==
    /\ pc = "fetch"
    /\ \E r \in fetch_results(config, query, i, PagesAllowed) :
        /\ fetchCalls' = Append(fetchCalls, i)
        /\ netCalls' = netCalls + r.net
        /\ fetched' = Append(fetched, r.items)
        /\ lastCause' = r.cause
        /\ results' = r.items
        /\ idx' = 1
        /\ pc' = IF r.items = <<>> THEN "respond" ELSE "count"
    /\ UNCHANGED <<config, data, query, i, all_data, total_items_processed,
                   items_without_emails, response>>
    /\ UNCHANGED xVars

\* lines 177-181: one iteration's fetch_results call and the break; an
\* exception leaving fetch_results would reach the handler of line 209
search_fetch ==
    /\ pc = "fetch"
    /\ \E r \in fetch_results(config, query, i + 1, PagesAllowed) :
        /\ fetchCalls' = Append(fetchCalls, i + 1)
        /\ netCalls' = netCalls + r.net
        /\ fetched' = Append(fetched, r.items)
        /\ lastCause' = r.cause
        /\ results' = r.items
        /\ idx' = 1
        /\ pc' = IF r.raised THEN "done"
                 ELSE IF r.items = <<>> THEN "respond" ELSE "count"
        /\ response' = IF r.raised
                       THEN ErrorResponse(500, "An unexpected error occurred")
                       ELSE response
    /\ UNCHANGED <<config, data, query, i, all_data, total_items_processed,
                   items_without_emails>>
    /\ UNCHANGED xVars

\* line 184
search_count ==
    /\ pc = "count"
    /\ total_items_processed' = total_items_processed + 1
    /\ pc' = "parse"
    /\ UNCHANGED <<config, data, query, i, results, idx, all_data,
                   items_without_emails, response, fetchCalls, netCalls, fetched,
                   lastCause>>
    /\ UNCHANGED xVars

\* The loop variable after the page: range(0, 1000, 10) ends the loop when the
\* next value reaches 1000.
AfterItem ==
    IF idx < Len(results)
    THEN /\ idx' = idx + 1
         /\ pc' = "count"
         /\ UNCHANGED i
    ELSE /\ idx' = idx
         /\ i' = i + PageStep
         /\ pc' = IF i + PageStep < ResultCeiling THEN "fetch" ELSE "respond"

\* Faulty variant: records without emails are not counted.
search_parse_uncounted ==
    /\ pc = "parse"
    /\ IF parse_raises(results[idx])
       THEN /\ response' = ErrorResponse(500, "An unexpected error occurred")
            /\ pc' = "done"
            /\ UNCHANGED <<all_data, idx, i>>
       ELSE /\ \E parsed \in parse_result(results[idx]) :
                all_data' = Append(all_data, parsed)
            /\ AfterItem
            /\ UNCHANGED response
    /\ UNCHANGED <<config, data, query, results, total_items_processed,
                   items_without_emails, fetchCalls, netCalls, fetched, lastCause>>
    /\ UNCHANGED xVars

\* Faulty variant: a record is put in front of the earlier ones.
search_parse_prepend ==
    /\ pc = "parse"
    /\ IF parse_raises(results[idx])
       THEN /\ response' = ErrorResponse(500, "An unexpected error occurred")
            /\ pc' = "done"
            /\ UNCHANGED <<all_data, items_without_emails, idx, i>>
       ELSE /\ \E parsed \in parse_result(results[idx]) :
                /\ all_data' = <<parsed>> \o all_data
                /\ items_without_emails' =
                       IF parsed.emails = <<>> THEN items_without_emails + 1
                       ELSE items_without_emails
            /\ AfterItem
            /\ UNCHANGED response
    /\ UNCHANGED <<config, data, query, results, total_items_processed,
                   fetchCalls, netCalls, fetched, lastCause>>
    /\ UNCHANGED xVars

\* lines 185-190; an exception of parse_result reaches the handler of line 209
search_parse ==
    /\ pc = "parse"
    /\ IF parse_raises(results[idx])
       THEN /\ response' = ErrorResponse(500, "An unexpected error occurred")
            /\ pc' = "done"
            /\ UNCHANGED <<all_data, items_without_emails, idx, i>>
       ELSE /\ \E parsed \in parse_result(results[idx]) :
                /\ all_data' = Append(all_data, parsed)
                /\ items_without_emails' =
                       IF parsed.emails = <<>> THEN items_without_emails + 1
                       ELSE items_without_emails
            /\ AfterItem
            /\ UNCHANGED response
    /\ UNCHANGED <<config, data, query, results, total_items_processed,
                   fetchCalls, netCalls, fetched, lastCause>>
    /\ UNCHANGED xVars

\* lines 192-207
search_respond ==
    /\ pc = "respond"
    /\ response' = [status |-> 200,
                    success |-> TRUE,
                    csv_data |-> generate_csv(all_data),
                    results_count |-> Len(all_data),
                    total_processed |-> total_items_processed,
                    items_without_emails |-> items_without_emails]
    /\ pc' = "done"
    /\ UNCHANGED <<config, data, query, i, results, idx, all_data,
                   total_items_processed, items_without_emails, fetchCalls,
                   netCalls, fetched, lastCause>>
    /\ UNCHANGED xVars

PipeStart ==
    /\ pc = "start"
    /\ query = <<>>
    /\ i = 0
    /\ results = <<>>
    /\ idx = 1
    /\ all_data = <<>>
    /\ total_items_processed = 0
    /\ items_without_emails = 0
    /\ response = NoResponse
    /\ fetchCalls = <<>>
    /\ netCalls = 0
    /\ fetched = <<>>
    /\ lastCause = "none"

Init ==
    /\ config \in Configs
    /\ data \in Requests
    /\ PipeStart
    /\ xin = JNull
    /\ xout = <<>>
    /\ xpc = "idle"

Next ==
    \/ search_validate
    \/ search_fetch
    \/ search_count
    \/ search_parse
    \/ search_respond

Spec == Init /\ [][Next]_vars

----------------------------------------------------------------------------
(***************************************************************************)
(* extract_emails on its own, applied to bounded nested values.            *)
(***************************************************************************)
XAlphabet == {"a", "@", ".", "-", " "}

\* Every string over XAlphabet of at most MaxStrLen characters.
XStrings == UNION {[1..n -> XAlphabet] : n \in 0..MaxStrLen}

XLeafStrings ==
    {E_a_x,
     E_b_x \o <<" ">> \o E_a_x \o <<";">> \o E_b_x,
     <<"n","o"," ","m","a","i","l","@">>}

XLeaves == {JStr(str) : str \in XLeafStrings} \cup {JNum(<<"7">>), JNull}

\* A plain key and a key that is itself an email.
XKeys == {<<"k">>, E_k_x}

\* The leaves put beside a nested value.
XSideLeaves == {JStr(E_a_x), JNum(<<"7">>)}

\* The values one level above those of `below`: such a value alone or before
\* a leaf, in a list or under the keys of a mapping.
XGrow(below) ==
    below
    \cup {JList(<<v>>) : v \in below}
    \cup {JList(<<v, w>>) : v \in below, w \in XSideLeaves}
    \cup {JDict(<<Ent(k, v)>>) : k \in XKeys, v \in below}
    \cup {JDict(<<Ent(kl[1], v), Ent(kl[2], w)>>) :
             kl \in {p \in XKeys \X XKeys : p[1] # p[2]}, v \in below, w \in XSideLeaves}

\* The values of nesting depth at most d.
RECURSIVE XValues(_)
XValues(d) == IF d = 0 THEN XLeaves ELSE XGrow(XValues(d - 1))

XInputs == XValues(MaxDepth) \cup {JStr(str) : str \in XStrings}

PipeIdle ==
    /\ config = [GOOGLE_API_KEY |-> None, SEARCH_ENGINE_ID |-> None, CLIENT_KEY |-> None]
    /\ data = [kind |-> "null"]
    /\ pc = "idle"
    /\ query = <<>>
    /\ i = 0
    /\ results = <<>>
    /\ idx = 1
    /\ all_data = <<>>
    /\ total_items_processed = 0
    /\ items_without_emails = 0
    /\ response = NoResponse
    /\ fetchCalls = <<>>
    /\ netCalls = 0
    /\ fetched = <<>>
    /\ lastCause = "none"

InitExtract ==
    /\ PipeIdle
    /\ xin \in XInputs
    /\ xout = <<>>
    /\ xpc = "ready"

\* one call extract_emails(xin)
extract_call ==
    /\ xpc = "ready"
    /\ xout' \in extract_emails(xin)
    /\ xpc' = "done"
    /\ UNCHANGED xin
    /\ UNCHANGED pipeVars

NextExtract == extract_call

SpecExtract == InitExtract /\ [][NextExtract]_vars

----------------------------------------------------------------------------
(***************************************************************************)
(* Vocabulary of the properties.                                           *)
(***************************************************************************)
Last(seq) == seq[Len(seq)]

Finished == pc = "done"

Succeeded == pc = "done" /\ response.status = 200

\* The request carries the four fields and the client key of the configuration.
ValidAuthorized ==
    /\ data.kind = "object"
    /\ FirstMissing(data) = 0
    /\ data.key = config.CLIENT_KEY

SearchFields == {"website", "city", "occupation", "email_domain"}

FieldMissing(f) == data.kind = "object" /\ data[f] \in {None, ""}

\* Every item the fetch_results calls have returned so far, in order.
ItemsSeen == Flatten(fetched)

NumWithoutEmail(recs) == Cardinality({j \in DOMAIN recs : recs[j].emails = <<>>})

IsSubstring(m, str) ==
    \E p \in 1..(Len(str) - Len(m) + 1) : SubSeq(str, p, p + Len(m) - 1) = m

\* m as a whole has the shape local+ @ host+ . domain+
IsEmail(m) ==
    \E a, b \in DOMAIN m :
        /\ 1 < a /\ a + 1 < b /\ b < Len(m)
        /\ m[a] = "@" /\ m[b] = "."
        /\ \A j \in 1..(a - 1) : m[j] \in EMAIL_REGEX.local
        /\ \A j \in (a + 1)..(b - 1) : m[j] \in EMAIL_REGEX.host
        /\ \A j \in (b + 1)..Len(m) : m[j] \in EMAIL_REGEX.domain

\* The strings reached through mapping values and list elements, in the order
\* of the traversal.
RECURSIVE StringLeaves(_)
StringLeaves(v) ==
    IF v.t = "str" THEN <<v.s>>
    ELSE Flatten([j \in DOMAIN v.c |-> StringLeaves(v.c[j].v)])

RECURSIVE Dedup(_, _)
Dedup(seq, seen) ==
    IF seq = <<>> THEN <<>>
    ELSE IF Head(seq) \in seen THEN Dedup(Tail(seq), seen)
    ELSE <<Head(seq)>> \o Dedup(Tail(seq), seen \cup {Head(seq)})

\* The matches in order of first discovery, each once.
FirstDiscovery(v) ==
    LET leaves == StringLeaves(v) IN
    Dedup(Flatten([j \in DOMAIN leaves |-> findall(leaves[j])]), {})

\* The lines of a CSV text none of whose fields holds a line break.
RECURSIVE CsvLines(_, _)
CsvLines(text, line) ==
    IF text = <<>> THEN (IF line = <<>> THEN <<>> ELSE <<line>>)
    ELSE IF Len(text) >= 2 /\ text[1] = "\r" /\ text[2] = "\n"
    THEN <<line>> \o CsvLines(SubSeq(text, 3, Len(text)), <<>>)
    ELSE CsvLines(Tail(text), Append(line, Head(text)))

\* The fields of a CSV line none of whose fields holds a comma.
RECURSIVE CsvFields(_, _)
CsvFields(line, field) ==
    IF line = <<>> THEN <<field>>
    ELSE IF Head(line) = "," THEN <<field>> \o CsvFields(Tail(line), <<>>)
    ELSE CsvFields(Tail(line), Append(field, Head(line)))

HeaderLine ==
    <<"T","i","t","l","e",",","S","o","u","r","c","e",",","U","R","L",",",
      "E","m","a","i","l","s",",","F","i","r","s","t"," ","N","a","m","e",",",
      "L","a","s","t"," ","N","a","m","e">>

----------------------------------------------------------------------------
(***************************************************************************)
(* The claims.                                                             *)
(***************************************************************************)

\* C1: no fetch_results call follows a call that returned zero items (the
\* first empty page ends the pagination, whatever remains of the ceiling),
\* and one request makes at most 100 fetch_results calls.
C1_StopsOnFirstEmptyPage ==
    /\ \A j \in DOMAIN fetched : fetched[j] = <<>> => j = Len(fetched)
    /\ (fetched # <<>> /\ Last(fetched) = <<>>) => pc \in {"respond", "done"}
    /\ Len(fetchCalls) <= 100
    /\ Len(fetchCalls) = Len(fetched)

\* C1 witness: a run that took two pages and ended on an empty third page,
\* far below the ceiling.
C1_Witness ==
    /\ Succeeded
    /\ Len(fetched) = 3
    /\ fetched[1] # <<>> /\ fetched[2] # <<>> /\ fetched[3] = <<>>
    /\ response.total_processed = 2

\* C2: a request (a JSON object) in which one of website, city, occupation,
\* email_domain is absent or empty ends in the 400 validation error and
\* never reaches fetch_results, whatever the other fields and the
\* credentials are.
C2_MissingFieldIsValidationError ==
    \A f \in SearchFields :
        FieldMissing(f) =>
            /\ fetchCalls = <<>> /\ netCalls = 0
            /\ pc \in {"start", "done"}
            /\ Finished => response.status = 400 /\ response.error \in SearchFields

\* C2 witness: only the city is empty, key and credentials are right, and the
\* request was answered 400.
C2_Witness ==
    /\ Finished
    /\ data.kind = "object"
    /\ data.city = "" /\ data.website # None /\ data.website # ""
    /\ data.occupation = "Engineer" /\ data.email_domain = "example.com"
    /\ data.key = "secret" /\ config.CLIENT_KEY = "secret"
    /\ ~CredentialsMissing(config)
    /\ response = ErrorResponse(400, "city")

\* C3: with the API key or the search-engine id absent, a valid authorized
\* request ends in a failure, not in a successful outcome, and no network
\* call is made.
C3_MissingCredentialsFail ==
    (ValidAuthorized /\ CredentialsMissing(config)) =>
        /\ netCalls = 0
        /\ Finished => response.status # 200

\* C4: every failure of the call to the search API makes fetch_results
\* return the empty list without raising, and a run whose every call fails
\* (HTTP 403 or otherwise) ends in a successful outcome of zero records.
C4_FetchFailureAbsorbed ==
    /\ pc = "fetch" =>
           \A r \in fetch_results(config, query, i + 1, PagesAllowed) :
               /\ ~r.raised
               /\ r.cause # "ok_items" => r.items = <<>>
    /\ lastCause \notin {"none", "ok_items"} =>
           /\ Last(fetched) = <<>>
           /\ pc \in {"respond", "done"}
    /\ (Finished /\ lastCause \notin {"none", "ok_items", "no_credentials"}
                 /\ Len(fetchCalls) = 1) =>
           /\ response.status = 200
           /\ response.success
           /\ response.total_processed = 0
           /\ response.results_count = 0
           /\ all_data = <<>>

\* C4 witness: the first call was answered 403 and the request succeeded
\* with nothing.
C4_Witness ==
    /\ Succeeded
    /\ lastCause = "http_403"
    /\ netCalls = 1
    /\ response.total_processed = 0

\* C5 as stated: len(records) == totalProcessed and itemsWithoutEmail is the
\* number of records without emails at every point of the pagination loop
\* and in every outcome.
C5_CountsAtEveryPoint ==
    (ValidAuthorized /\ pc # "start") =>
        /\ Len(all_data) = total_items_processed
        /\ items_without_emails = NumWithoutEmail(all_data)

\* C5 amended: the counts agree between items (before a page is fetched,
\* before an item is counted, after the loop) and in every outcome, where
\* totalProcessed is also the number of items of all pages fetched; while an
\* item is parsed totalProcessed is one ahead of len(records).
C5_CountsBetweenItems ==
    /\ pc \in {"fetch", "count", "respond"} \/ Succeeded =>
           /\ Len(all_data) = total_items_processed
           /\ items_without_emails = NumWithoutEmail(all_data)
           /\ 0 <= items_without_emails /\ items_without_emails <= total_items_processed
    /\ pc = "parse" =>
           /\ total_items_processed = Len(all_data) + 1
           /\ items_without_emails = NumWithoutEmail(all_data)
    /\ pc \in {"fetch", "respond"} \/ Succeeded =>
           total_items_processed = Len(ItemsSeen)
    /\ Succeeded =>
           /\ response.total_processed = total_items_processed
           /\ response.results_count = Len(all_data)
           /\ response.items_without_emails = items_without_emails

\* C5 witness: an outcome of three records, one of them without email.
C5_Witness ==
    /\ Succeeded
    /\ response.total_processed = 3
    /\ response.items_without_emails = 1
    /\ Len(fetched) = 3

\* C6: the emails extract_emails returns are in the order of first discovery
\* of the traversal.
C6_FirstDiscoveryOrder ==
    xpc = "done" => xout = FirstDiscovery(xin)

\* C7: extract_emails returns, each once, exactly the strings the pattern
\* matches in the string leaves reached through mapping values and list
\* elements: every element is an email found inside such a leaf, every match
\* of a leaf is returned, keys and other scalars add nothing, and a value
\* without a match gives the empty list.
C7_ExactlyTheLeafMatches ==
    xpc = "done" =>
        LET leaves == Range(StringLeaves(xin)) IN
        /\ NoDup(xout)
        /\ \A j \in DOMAIN xout :
               /\ IsEmail(xout[j])
               /\ \E leaf \in leaves : IsSubstring(xout[j], leaf)
        /\ Range(xout) = UNION {Range(findall(leaf)) : leaf \in leaves}
        /\ \A leaf \in leaves :
               (\E p \in DOMAIN leaf, q \in DOMAIN leaf : IsEmail(SubSeq(leaf, p, q)))
                   => \E j \in DOMAIN xout : IsSubstring(xout[j], leaf)
        /\ (\A leaf \in leaves : "@" \notin Range(leaf)) => xout = <<>>

\* C7 witness: a mapping whose key is an email and whose value holds a list
\* with a string of two distinct emails (one of them twice) beside a number;
\* the two emails were returned and the key was not.
C7_Witness ==
    /\ xpc = "done"
    /\ xin.t = "dict"
    /\ \E j \in DOMAIN xin.c : xin.c[j].k = E_k_x /\ xin.c[j].v.t = "list"
    /\ Range(xout) = {E_a_x, E_b_x}
    /\ \E leaf \in Range(StringLeaves(xin)) : Len(findall(leaf)) = 3

C9_OffsetsInOrder ==
    /\ \A k \in DOMAIN fetchCalls :
           fetchCalls[k] = 10 * (k - 1) + 1 /\ fetchCalls[k] <= 991
    /\ pc = "fetch" => i = 10 * Len(fetchCalls)

\* C9 witness: the hundredth call, at offset 991.
C9_Witness ==
    /\ Len(fetchCalls) = 100
    /\ fetchCalls[100] = 991
    /\ Succeeded

\* C10: a request whose page k+1 is the first empty or failed one succeeds
\* with the parsed items of pages 1..k as its records, in page order and item
\* order, whatever made page k+1 empty.
C10_RecordsOfEarlierPages ==
    (Finished /\ fetched # <<>> /\ Last(fetched) = <<>>) =>
        LET seen == ItemsSeen IN
        /\ response.status = 200
        /\ Len(all_data) = Len(seen)
        /\ \A j \in DOMAIN all_data : all_data[j] \in parse_result(seen[j])
        /\ response.results_count = Len(seen)
        /\ response.csv_data = generate_csv(all_data)

\* C10 witness: two pages of different items, then a timeout.
C10_Witness ==
    /\ Succeeded
    /\ lastCause = "timeout"
    /\ fetched = << <<ItemTwo, ItemNested>>, <<ItemPlain>>, <<>> >>
    /\ Len(all_data) = 3
    /\ Range(all_data[1].emails) = {E_a_x, E_b_x}
    /\ all_data[2].emails = <<E_a_example>>
    /\ all_data[3].emails = <<>>

====
